---- MODULE Spec2Model ----
(***************************************************************************)
(* HL7 middleware (main.go): the message model (HL7Message, Segment,       *)
(* AddSegment), the codec (GenerateMessage, ParseHL7Message) and the HTTP  *)
(* front end (main and its handlers).                                      *)
(*                                                                         *)
(* A Go string is modelled as the sequence of its characters, each a       *)
(* one-character TLA+ string; the model's alphabets are ASCII, so a        *)
(* character is a byte.  A Segment is [Type, Fields], a message is         *)
(* [Segments |-> <<...>>], a nil *HL7Message is NilMessage, a nil error    *)
(* is NoError.                                                             *)
(***************************************************************************)
EXTENDS Integers, Sequences, FiniteSets, TLC

VARIABLES text, text2, message, calls, parsed, parsed2, env, port, addr, response, pc

vars == <<text, text2, message, calls, parsed, parsed2, env, port, addr, response, pc>>

----------------------------------------------------------------------------
(* Constants of the wire format, main.go:24-31 *)

SegmentSeparator == "\r"
FieldSeparator == "|"
ComponentSeparator == "^"
SubComponentSeparator == "&"
RepetitionSeparator == "~"
EscapeCharacter == "\\"

(* bufio's limits, which bufio.NewScanner (main.go:87) installs *)
MaxScanTokenSize == 65536
startBufSize == 4096

NoError == "nil"
ErrTooLong == "bufio.Scanner: token too long"
ErrInvalidSegment == "invalid segment format"
EOF == "EOF"

NilMessage == [Nil |-> TRUE]

----------------------------------------------------------------------------
(* Bounds of the model *)

MaxTextLen == 4
MaxCells == 3
MaxBodyLen == 3

Min(S) == CHOOSE x \in S : \A y \in S : x <= y

\* n times the character "A", as a sequence
Rep(n) == SubSeq([i \in 1..n |-> "A"], 1, n)

\* every string over alphabet A of length at most n
StringsUpTo(A, n) == UNION {[1..k -> A] : k \in 0..n}

----------------------------------------------------------------------------
(* Message model, main.go:33-65 *)

Segment(segmentType, fields) == [Type |-> segmentType, Fields |-> fields]

NewHL7Message == [Segments |-> <<>>]

\* Mutant of AppendSegment: the new segment goes to the front.
PrependSegment(m, segmentType, fields) ==
    [m EXCEPT !.Segments = <<Segment(segmentType, fields)>> \o m.Segments]

\* m.Segments = append(m.Segments, segment)
AppendSegment(m, segmentType, fields) ==
    [m EXCEPT !.Segments = Append(m.Segments, Segment(segmentType, fields))]

----------------------------------------------------------------------------
(* GenerateMessage, main.go:68-81: the strings.Builder after the loops *)

\* Mutant of WriteFields: the separator follows each field.
RECURSIVE WriteFieldsTrailing(_, _)
WriteFieldsTrailing(builder, fields) ==
    IF fields = <<>> THEN builder
    ELSE WriteFieldsTrailing(builder \o Head(fields) \o <<FieldSeparator>>, Tail(fields))

RECURSIVE WriteFields(_, _)
WriteFields(builder, fields) ==
    IF fields = <<>> THEN builder
    ELSE WriteFields(builder \o <<FieldSeparator>> \o Head(fields), Tail(fields))

RECURSIVE WriteSegments(_, _)
WriteSegments(builder, segments) ==
    IF segments = <<>> THEN builder
    ELSE WriteSegments(
             WriteFields(builder \o Head(segments).Type, Head(segments).Fields)
                 \o <<SegmentSeparator>>,
             Tail(segments))

GenerateMessage(m) == WriteSegments(<<>>, m.Segments)

----------------------------------------------------------------------------
(* ParseHL7Message, main.go:84-124 *)

\* Mutant of Index: strings.LastIndex, the place of the last c.
IndexLast(s, c) ==
    LET P == {i \in 1..Len(s) : s[i] = c}
    IN  IF P = {} THEN -1 ELSE (CHOOSE x \in P : \A y \in P : x >= y) - 1

\* strings.Index(s, c) for a one-character c: the 0-based place of the first
\* c in s, -1 when there is none.
Index(s, c) ==
    LET P == {i \in 1..Len(s) : s[i] = c}
    IN  IF P = {} THEN -1 ELSE Min(P) - 1

\* Mutant of Split: strings.SplitN(s, sep, 2), one cut only.
SplitN2(s, sep) ==
    IF Index(s, sep) < 0 THEN <<s>>
    ELSE <<SubSeq(s, 1, Index(s, sep)), SubSeq(s, Index(s, sep) + 2, Len(s))>>

\* Mutant of Split: empty tokens are dropped.
RECURSIVE SplitSkipEmpty(_, _)
SplitSkipEmpty(s, sep) ==
    IF Index(s, sep) < 0 THEN (IF s = <<>> THEN <<>> ELSE <<s>>)
    ELSE (IF Index(s, sep) = 0 THEN <<>> ELSE <<SubSeq(s, 1, Index(s, sep))>>)
             \o SplitSkipEmpty(SubSeq(s, Index(s, sep) + 2, Len(s)), sep)

\* strings.Split(s, sep) for a one-character sep: cut at every sep, the
\* rest of the string is the last token.
RECURSIVE Split(_, _)
Split(s, sep) ==
    LET m == Index(s, sep)
    IN  IF m < 0 THEN <<s>>
        ELSE <<SubSeq(s, 1, m)>> \o Split(SubSeq(s, m + 2, Len(s)), sep)

\* Mutant of SplitFunc: the token keeps its separator, data[0:i+1].
SplitFuncKeepsSeparator(data, atEOF) ==
    IF atEOF /\ Len(data) = 0
        THEN [advance |-> 0, token |-> <<>>, isToken |-> FALSE]
    ELSE IF Index(data, SegmentSeparator) >= 0
        THEN [advance |-> Index(data, SegmentSeparator) + 1,
              token |-> SubSeq(data, 1, Index(data, SegmentSeparator) + 1),
              isToken |-> TRUE]
    ELSE IF atEOF
        THEN [advance |-> Len(data), token |-> data, isToken |-> TRUE]
    ELSE [advance |-> 0, token |-> <<>>, isToken |-> FALSE]

\* The split function handed to scanner.Split, main.go:88-99.
SplitFunc(data, atEOF) ==
    IF atEOF /\ Len(data) = 0
        THEN [advance |-> 0, token |-> <<>>, isToken |-> FALSE]
    ELSE LET i == Index(data, SegmentSeparator)
         IN  IF i >= 0
                 THEN [advance |-> i + 1, token |-> SubSeq(data, 1, i), isToken |-> TRUE]
             ELSE IF atEOF
                 THEN [advance |-> Len(data), token |-> data, isToken |-> TRUE]
             ELSE [advance |-> 0, token |-> <<>>, isToken |-> FALSE]

\* bufio.NewScanner(strings.NewReader(messageStr)), main.go:87.  The scanner
\* is [bufLen, start, end, err] and off, the reader's position: the bytes
\* buf[start:end] are always the last end-start bytes read, src[off-(end-start) .. off).
NewScanner == [bufLen |-> 0, start |-> 0, end |-> 0, err |-> NoError, off |-> 0]

Buffered(src, s) == SubSeq(src, s.off - (s.end - s.start) + 1, s.off)

NoToken == [advance |-> 0, token |-> <<>>, isToken |-> FALSE]

\* Scan's first step: try the split function on what the buffer holds; at
\* EOF it gets a last chance on the rest, which may be empty.
TrySplit(src, s) ==
    IF s.end > s.start \/ s.err # NoError
        THEN SplitFunc(Buffered(src, s), s.err # NoError)
        ELSE NoToken

\* s.advance(n)
Advance(s, n) == [s EXCEPT !.start = s.start + n]

\* Shift the data to the beginning of the buffer if there is lots of empty
\* space or space is needed.
Shift(s) ==
    IF s.start > 0 /\ (s.end = s.bufLen \/ s.start > s.bufLen \div 2)
        THEN [s EXCEPT !.end = s.end - s.start, !.start = 0]
        ELSE s

\* The size of the buffer that replaces a full one of size n.
NewSize(n) ==
    IF n * 2 = 0 THEN startBufSize
    ELSE IF n * 2 < MaxScanTokenSize THEN n * 2
    ELSE MaxScanTokenSize

\* The buffer is full and holds no token: it has reached the maximum.
TooLong(s) == s.end = s.bufLen /\ s.bufLen >= MaxScanTokenSize

\* Resize a full buffer.
Grow(s) ==
    IF s.end = s.bufLen
        THEN [s EXCEPT !.bufLen = NewSize(s.bufLen), !.end = s.end - s.start, !.start = 0]
        ELSE s

\* strings.Reader.Read into buf[end:len(buf)]: EOF once the text is used
\* up, else as many bytes as fit.  (Scan's retry loop is for readers that
\* return 0 bytes and no error, which strings.Reader never does.)
Read(src, s) ==
    IF s.off >= Len(src) THEN [s EXCEPT !.err = EOF]
    ELSE IF Len(src) - s.off < s.bufLen - s.end
        THEN [s EXCEPT !.end = s.end + (Len(src) - s.off), !.off = Len(src)]
    ELSE [s EXCEPT !.end = s.bufLen, !.off = s.off + (s.bufLen - s.end)]

\* scanner.Scan(), main.go:101: [ok, token, s] with s the scanner afterwards.
RECURSIVE Scan(_, _)
RECURSIVE ScanAfterSplit(_, _, _)
RECURSIVE ScanFill(_, _)

Scan(src, s) == ScanAfterSplit(src, s, TrySplit(src, s))

ScanAfterSplit(src, s, r) ==
    IF r.isToken THEN [ok |-> TRUE, token |-> r.token, s |-> Advance(s, r.advance)]
    ELSE IF s.err # NoError
        \* EOF and no token left: shut down
        THEN [ok |-> FALSE, token |-> <<>>, s |-> [s EXCEPT !.start = 0, !.end = 0]]
    ELSE ScanFill(src, Shift(s))

ScanFill(src, s) ==
    IF TooLong(s)
        THEN [ok |-> FALSE, token |-> <<>>, s |-> [s EXCEPT !.err = ErrTooLong]]
        ELSE Scan(src, Read(src, Grow(s)))

\* scanner.Err(), main.go:119
ScannerErr(s) == IF s.err = EOF THEN NoError ELSE s.err

RECURSIVE ParseLoop(_, _, _)
RECURSIVE ParseStep(_, _, _)
RECURSIVE ParseToken(_, _, _, _)

\* Mutant of ParseReturn: the segments parsed so far come with the error.
ParseReturnKeepsMessage(err, m) == [message |-> m, err |-> err]

\* main.go:119-123
ParseReturn(err, m) ==
    IF err # NoError THEN [message |-> NilMessage, err |-> err]
    ELSE [message |-> m, err |-> NoError]

\* The loop of main.go:101-117.
ParseLoop(src, s, m) == ParseStep(src, Scan(src, s), m)

ParseStep(src, r, m) ==
    IF r.ok
        THEN IF Len(r.token) = 0 THEN ParseLoop(src, r.s, m)
             ELSE ParseToken(src, r.s, m, Split(r.token, FieldSeparator))
        ELSE ParseReturn(ScannerErr(r.s), m)

\* main.go:107-116: the segment of a non-empty chunk, or the format error.
ParseToken(src, s, m, fields) ==
    IF Len(fields) < 1 THEN [message |-> NilMessage, err |-> ErrInvalidSegment]
    ELSE ParseLoop(src, s, AppendSegment(m, fields[1], Tail(fields)))

ParseHL7Message(messageStr) == ParseLoop(messageStr, NewScanner, NewHL7Message)

----------------------------------------------------------------------------
(* GenerateSampleMessage, main.go:175-203 *)

\* time.Now().Format("20060102150405"): fourteen digits
Timestamps == {<<"2", "0", "0", "6", "0", "1", "0", "2", "1", "5", "0", "4", "0", "5">>,
               <<"2", "0", "2", "6", "1", "1", "0", "5", "1", "0", "1", "5", "0", "0">>}

GenerateSampleMessage(currentTime) ==
    AppendSegment(
        AppendSegment(NewHL7Message,
            <<"M", "S", "H">>,
            <<<<"^", "~", "\\", "&">>,
              <<"S", "E", "N", "D", "I", "N", "G", "_", "A", "P", "P">>,
              <<"S", "E", "N", "D", "I", "N", "G", "_", "F", "A", "C", "I", "L", "I", "T", "Y">>,
              <<"R", "E", "C", "E", "I", "V", "I", "N", "G", "_", "A", "P", "P">>,
              <<"R", "E", "C", "E", "I", "V", "I", "N", "G", "_", "F", "A", "C", "I", "L", "I", "T", "Y">>,
              currentTime,
              <<>>,
              <<"A", "D", "T", "^", "A", "0", "1">>,
              <<"M", "S", "G", "0", "0", "0", "0", "1">>,
              <<"P">>,
              <<"2", ".", "5">>>>),
        <<"P", "I", "D">>,
        <<<<>>,
          <<"1", "2", "3", "4", "5">>,
          <<>>,
          <<>>,
          <<"D", "o", "e", "^", "J", "o", "h", "n">>,
          <<>>,
          <<"1", "9", "8", "0", "0", "1", "0", "1">>,
          <<"M">>>>)

----------------------------------------------------------------------------
(* Inputs of the model *)

TextChars == {"A", FieldSeparator, SegmentSeparator, ComponentSeparator,
              SubComponentSeparator, RepetitionSeparator, EscapeCharacter}

ShortTexts == StringsUpTo(TextChars, MaxTextLen)

\* Texts around the scanner's token limit: a chunk of MaxScanTokenSize - 1
\* or MaxScanTokenSize bytes, alone, after a short segment, before one.
LongTexts ==
    {prefix \o Rep(n) \o suffix :
        prefix \in {<<>>, <<"A", FieldSeparator, ComponentSeparator, SegmentSeparator>>},
        n \in {MaxScanTokenSize - 1, MaxScanTokenSize},
        suffix \in {<<>>, <<SegmentSeparator, "A">>}}

MsgChars == {"A", FieldSeparator, SegmentSeparator}

\* The strings of a built message: empty, or one character
Strs == {<<>>} \cup {<<c>> : c \in MsgChars}

\* One type string just under the scanner's limit: alone it makes a record
\* that fits, with one field a record that does not.
Types == Strs \cup {Rep(MaxScanTokenSize - 1)}

FieldLists == UNION {[1..k -> Strs] : k \in 0..(MaxCells - 1)}

\* The strings a message holds: one per segment type and one per field
RECURSIVE Cells(_)
Cells(segments) ==
    IF segments = <<>> THEN 0
    ELSE 1 + Len(Head(segments).Fields) + Cells(Tail(segments))

\* Request bodies of the HTTP front end
Bodies == StringsUpTo(MsgChars, MaxBodyLen)
              \cup {<<"A", SegmentSeparator>> \o Rep(MaxScanTokenSize)}

Unset == [message |-> NilMessage, err |-> "unset"]

----------------------------------------------------------------------------
(* The codec applied to a text: parse, serialize the result, parse again *)

Init ==
    /\ \/ text \in ShortTexts
       \/ text \in LongTexts
    /\ pc = "text"
    /\ text2 = <<>>
    /\ message = NewHL7Message
    /\ calls = <<>>
    /\ parsed = Unset
    /\ parsed2 = Unset
    /\ env = <<>>
    /\ port = <<>>
    /\ addr = <<>>
    /\ response = <<>>

\* message, err := ParseHL7Message(text)
Parse ==
    /\ pc = "text"
    /\ parsed' = ParseHL7Message(text)
    /\ pc' = "parsed"
    /\ UNCHANGED <<text, text2, message, calls, parsed2, env, port, addr, response>>

\* message.GenerateMessage() on the parsed message
Regenerate ==
    /\ pc = "parsed"
    /\ parsed.message # NilMessage
    /\ text2' = GenerateMessage(parsed.message)
    /\ pc' = "regenerated"
    /\ UNCHANGED <<text, message, calls, parsed, parsed2, env, port, addr, response>>

\* GenerateMessage on the nil message of a failed parse: m.Segments
\* dereferences nil (main.go:71) and the goroutine panics.
RegenerateNil ==
    /\ pc = "parsed"
    /\ parsed.message = NilMessage
    /\ pc' = "panic"
    /\ UNCHANGED <<text, text2, message, calls, parsed, parsed2, env, port, addr, response>>

\* ParseHL7Message on the regenerated text
Reparse ==
    /\ pc = "regenerated"
    /\ parsed2' = ParseHL7Message(text2)
    /\ pc' = "reparsed"
    /\ UNCHANGED <<text, text2, message, calls, parsed, env, port, addr, response>>

Next == Parse \/ Regenerate \/ Reparse

Spec == Init /\ [][Next]_vars

----------------------------------------------------------------------------
(* A message built by AddSegment, serialized, parsed and serialized again *)

InitBuild ==
    /\ message = NewHL7Message
    /\ calls = <<>>
    /\ pc = "build"
    /\ text = <<>>
    /\ text2 = <<>>
    /\ parsed = Unset
    /\ parsed2 = Unset
    /\ env = <<>>
    /\ port = <<>>
    /\ addr = <<>>
    /\ response = <<>>

\* m.AddSegment(segmentType, fields...): no validation, no rejection; the
\* model stops building at MaxCells strings.  calls logs the arguments.
AddSegment(segmentType, fields) ==
    /\ pc = "build"
    /\ Cells(message.Segments) + 1 + Len(fields) <= MaxCells
    /\ message' = AppendSegment(message, segmentType, fields)
    /\ calls' = Append(calls, <<segmentType, fields>>)
    /\ UNCHANGED <<text, text2, parsed, parsed2, env, port, addr, response, pc>>

\* text := message.GenerateMessage()
Serialize ==
    /\ pc = "build"
    /\ text' = GenerateMessage(message)
    /\ pc' = "text"
    /\ UNCHANGED <<text2, message, calls, parsed, parsed2, env, port, addr, response>>

NextBuild ==
    \/ \E segmentType \in Types, fields \in FieldLists : AddSegment(segmentType, fields)
    \/ Serialize
    \/ Parse
    \/ Regenerate
    \/ RegenerateNil

SpecBuild == InitBuild /\ [][NextBuild]_vars

----------------------------------------------------------------------------
(* The HTTP front end, main.go:126-172 and 247-288 *)

Version == "dev"
BuildDate == "unknown"

StatusOK == 200
StatusBadRequest == 400
StatusMethodNotAllowed == 405

Methods == {"GET", "POST", "PUT"}

\* The environment of the process: HL7_PORT unset, or set to a value.
Envs == {[set |-> FALSE, value |-> ""]}
            \cup {[set |-> TRUE, value |-> v] : v \in {"", "8080", "9090"}}

\* os.Getenv: the value, "" when the variable is not set.
Getenv(e) == IF e.set THEN e.value ELSE ""

\* sendJSONResponse, main.go:162-172
sendJSONResponse(success, msg, data, statusCode) ==
    [status |-> statusCode, success |-> success, message |-> msg, data |-> data]

\* handleParseHL7, main.go:129-148, as the response it sends.
ParseResponse(method, readOK, body) ==
    IF method # "POST"
        THEN sendJSONResponse(FALSE, <<"Method not allowed">>, NilMessage,
                              StatusMethodNotAllowed)
    ELSE IF ~readOK
        THEN sendJSONResponse(FALSE, <<"Error reading request body">>, NilMessage,
                              StatusBadRequest)
    ELSE IF ParseHL7Message(body).err # NoError
        THEN sendJSONResponse(FALSE,
                              <<"Error parsing HL7 message: ", ParseHL7Message(body).err>>,
                              NilMessage, StatusBadRequest)
    ELSE sendJSONResponse(TRUE, <<"HL7 message parsed successfully">>,
                          ParseHL7Message(body).message, StatusOK)

\* handleGenerateHL7, main.go:151-159, as the response it sends.
GenerateResponse(method, currentTime) ==
    IF method # "GET"
        THEN sendJSONResponse(FALSE, <<"Method not allowed">>, NilMessage,
                              StatusMethodNotAllowed)
        ELSE sendJSONResponse(TRUE, <<"HL7 message generated successfully">>,
                              GenerateSampleMessage(currentTime), StatusOK)

\* The address main hands to http.ListenAndServe, main.go:283: ":8080",
\* whatever port holds.
ListenAddr(p) == [host |-> "", port |-> "8080"]

InitMain ==
    /\ env \in Envs
    /\ pc = "start"
    /\ port = ""
    /\ addr = [host |-> "", port |-> ""]
    /\ response = <<>>
    /\ text = <<>>
    /\ text2 = <<>>
    /\ message = NewHL7Message
    /\ calls = <<>>
    /\ parsed = Unset
    /\ parsed2 = Unset

\* main.go:270-278: read the port, register the routes
ReadPort ==
    /\ pc = "start"
    /\ port' = IF Getenv(env) = "" THEN "8080" ELSE Getenv(env)
    /\ pc' = "routes"
    /\ UNCHANGED <<text, text2, message, calls, parsed, parsed2, env, addr, response>>

\* main.go:281-284: the goroutine's http.ListenAndServe binds the address
Listen ==
    /\ pc = "routes"
    /\ addr' = ListenAddr(port)
    /\ pc' = "serving"
    /\ UNCHANGED <<text, text2, message, calls, parsed, parsed2, env, port, response>>

\* http.ListenAndServe fails (the address is taken): log.Fatal ends the process
ListenFails ==
    /\ pc = "routes"
    /\ pc' = "exit"
    /\ UNCHANGED <<text, text2, message, calls, parsed, parsed2, env, port, addr, response>>

handleParseHL7(method, readOK, body) ==
    /\ pc = "serving"
    /\ response' = ParseResponse(method, readOK, body)
    /\ UNCHANGED <<text, text2, message, calls, parsed, parsed2, env, port, addr, pc>>

handleGenerateHL7(method, currentTime) ==
    /\ pc = "serving"
    /\ response' = GenerateResponse(method, currentTime)
    /\ UNCHANGED <<text, text2, message, calls, parsed, parsed2, env, port, addr, pc>>

\* main.go:248-250
handleHealth ==
    /\ pc = "serving"
    /\ response' = sendJSONResponse(TRUE, <<"Service is healthy">>, NilMessage, StatusOK)
    /\ UNCHANGED <<text, text2, message, calls, parsed, parsed2, env, port, addr, pc>>

\* main.go:253-263
handleVersion ==
    /\ pc = "serving"
    /\ response' = [version |-> Version, buildDate |-> BuildDate]
    /\ UNCHANGED <<text, text2, message, calls, parsed, parsed2, env, port, addr, pc>>

NextMain ==
    \/ ReadPort
    \/ Listen
    \/ ListenFails
    \/ \E method \in Methods, readOK \in BOOLEAN, body \in Bodies :
           handleParseHL7(method, readOK, body)
    \/ \E method \in Methods, currentTime \in Timestamps :
           handleGenerateHL7(method, currentTime)
    \/ handleHealth
    \/ handleVersion

SpecMain == InitMain /\ [][NextMain]_vars

----------------------------------------------------------------------------
(* What the claims speak of, stated from the text and not from the scanner *)

Positions(s, c) == {i \in 1..Len(s) : s[i] = c}

\* The k-th smallest element of a set of numbers
Nth(S, k) == CHOOSE p \in S : Cardinality({q \in S : q <= p}) = k

\* The places where a chunk can begin or end: before the text, at each
\* carriage return, after the text.
Cuts(s) == {0} \cup Positions(s, SegmentSeparator) \cup {Len(s) + 1}

NextCut(s, a) == Min({b \in Cuts(s) : b > a})

\* The cuts that a non-empty chunk follows
ChunkStarts(s) == {a \in Cuts(s) \ {Len(s) + 1} : NextCut(s, a) - a > 1}

NumChunks(s) == Cardinality(ChunkStarts(s))

\* The k-th non-empty chunk of s
ChunkAt(s, k) ==
    LET a == Nth(ChunkStarts(s), k)
    IN  SubSeq(s, a + 1, NextCut(s, a) - 1)

\* Some chunk of s is as long as the scanner's buffer can get, or longer
HasOversizedChunk(s) ==
    \E a \in ChunkStarts(s) : NextCut(s, a) - a - 1 >= MaxScanTokenSize

\* s has no empty chunk: it does not begin with a carriage return and no
\* two carriage returns are adjacent
NoEmptyChunk(s) ==
    /\ s # <<>> => s[1] # SegmentSeparator
    /\ \A i \in Positions(s, SegmentSeparator) :
           i < Len(s) => s[i + 1] # SegmentSeparator

\* j-th '|' of a chunk; 0 before the first, Len + 1 after the last
BarAt(chunk, j) ==
    IF j = 0 THEN 0
    ELSE IF j > Cardinality(Positions(chunk, FieldSeparator)) THEN Len(chunk) + 1
    ELSE Nth(Positions(chunk, FieldSeparator), j)

\* seg is chunk cut at its '|' characters: the type before the first, one
\* field between each two and after the last
SegmentOfChunk(seg, chunk) ==
    /\ seg.Type = SubSeq(chunk, 1, BarAt(chunk, 1) - 1)
    /\ Len(seg.Fields) = Cardinality(Positions(chunk, FieldSeparator))
    /\ \A j \in 1..Len(seg.Fields) :
           seg.Fields[j] = SubSeq(chunk, BarAt(chunk, j) + 1, BarAt(chunk, j + 1) - 1)

HasChar(s, c) == Positions(s, c) # {}

\* The strings of a segment: its type and its fields
StringsOf(seg) == {seg.Type} \cup {seg.Fields[j] : j \in 1..Len(seg.Fields)}

NoSeparatorIn(seg) ==
    \A s \in StringsOf(seg) :
        ~HasChar(s, SegmentSeparator) /\ ~HasChar(s, FieldSeparator)

NoSeparators(m) == \A k \in 1..Len(m.Segments) : NoSeparatorIn(m.Segments[k])

IsEmptySegment(seg) == seg.Type = <<>> /\ seg.Fields = <<>>

NoEmptySegment(m) == \A k \in 1..Len(m.Segments) : ~IsEmptySegment(m.Segments[k])

\* Where field j of a segment begins in the segment's record: at its '|'
RECURSIVE FieldOffset(_, _)
FieldOffset(seg, j) ==
    IF j = 1 THEN Len(seg.Type)
    ELSE FieldOffset(seg, j - 1) + 1 + Len(seg.Fields[j - 1])

\* Length of a segment's record: type, '|' and text per field, carriage return
RecordLen(seg) == FieldOffset(seg, Len(seg.Fields) + 1) + 1

\* Where the record of segment k begins in the text of a message
RECURSIVE RecordOffset(_, _)
RecordOffset(m, k) ==
    IF k = 1 THEN 0
    ELSE RecordOffset(m, k - 1) + RecordLen(m.Segments[k - 1])

\* rec is the record of seg
IsRecordOf(rec, seg) ==
    /\ Len(rec) = RecordLen(seg)
    /\ SubSeq(rec, 1, Len(seg.Type)) = seg.Type
    /\ \A j \in 1..Len(seg.Fields) :
           /\ rec[FieldOffset(seg, j) + 1] = FieldSeparator
           /\ SubSeq(rec, FieldOffset(seg, j) + 2, FieldOffset(seg, j + 1)) = seg.Fields[j]
    /\ rec[Len(rec)] = SegmentSeparator

Serialized == pc \in {"text", "parsed", "regenerated", "panic"}
Parsed == pc \in {"parsed", "regenerated", "reparsed", "panic"}

----------------------------------------------------------------------------
(* The claims *)

\* C1 (as claimed): round trip.  For every message m whose type and field
\* strings hold no carriage return and no '|', ParseHL7Message(m.GenerateMessage())
\* returns no error and a message equal to m.
C1_RoundTrip ==
    Parsed /\ NoSeparators(message)
        => parsed = [message |-> message, err |-> NoError]

\* C1 (amended): the round trip holds for every such m that has no segment
\* with both an empty type and zero fields; and when a record of m is
\* MaxScanTokenSize bytes or longer the parse returns the scanner's
\* token-too-long error and a nil message instead.
C1_RoundTripAmended ==
    Parsed /\ NoSeparators(message) /\ NoEmptySegment(message)
        => IF \E k \in 1..Len(message.Segments) :
                  RecordLen(message.Segments[k]) - 1 >= MaxScanTokenSize
               THEN parsed = [message |-> NilMessage, err |-> ErrTooLong]
               ELSE parsed = [message |-> message, err |-> NoError]

\* A message of two segments, one with an empty type and an empty field,
\* has made the round trip.
C1_Witness ==
    /\ pc = "parsed"
    /\ NoSeparators(message) /\ NoEmptySegment(message)
    /\ Len(message.Segments) = 2
    /\ \E k \in 1..2 : message.Segments[k] = Segment(<<>>, << <<>> >>)
    /\ parsed.err = NoError

\* C2 (as claimed): idempotent re-serialization.  For every message m,
\* whatever its strings hold, GenerateMessage(ParseHL7Message(GenerateMessage(m)))
\* is GenerateMessage(m).
C2_Reserialize ==
    /\ pc # "panic"
    /\ pc = "regenerated" => text2 = text

\* C2 (amended): the re-serialization gives the first text back whenever
\* that text has no empty chunk; and the parse in between returns no
\* message only when a chunk is MaxScanTokenSize bytes or longer.
C2_ReserializeAmended ==
    /\ pc = "regenerated" /\ NoEmptyChunk(text) => text2 = text
    /\ pc = "panic" => parsed.err = ErrTooLong /\ HasOversizedChunk(text)

\* A message with a '|' inside a string, so that the parse does not give it
\* back, has been serialized, parsed and serialized again.
C2_Witness ==
    /\ pc = "regenerated"
    /\ NoEmptyChunk(text)
    /\ ~NoSeparators(message)
    /\ parsed.message # message
    /\ Len(message.Segments) = 2

\* C3: segment chunking.  For every text the parse gives no error and one
\* segment per non-empty chunk between carriage returns, in the chunks' order.
C3_SegmentPerChunk ==
    pc = "parsed"
        => /\ parsed.err = NoError
           /\ Len(parsed.message.Segments) = NumChunks(text)
           /\ \A k \in 1..NumChunks(text) :
                  SegmentOfChunk(parsed.message.Segments[k], ChunkAt(text, k))

\* C4: field splitting.  Each segment the parse returns has as its type the
\* text of its chunk before the first '|' and as its fields the texts
\* between successive '|', as many fields as the chunk has '|'; every
\* other character stays where it is.
C4_FieldSplitting ==
    pc = "parsed" /\ parsed.err = NoError
        => \A k \in 1..Len(parsed.message.Segments) :
               /\ k <= NumChunks(text)
               /\ SegmentOfChunk(parsed.message.Segments[k], ChunkAt(text, k))

\* A chunk with consecutive '|' and a component, sub-component, repetition
\* or escape character has been parsed into an empty field and a field
\* holding that character.
C4_Witness ==
    /\ pc = "parsed"
    /\ parsed.err = NoError
    /\ \E k \in 1..Len(parsed.message.Segments) :
           LET fields == parsed.message.Segments[k].Fields
           IN  /\ Len(fields) = 2
               /\ fields[1] = <<>>
               /\ \E c \in {ComponentSeparator, SubComponentSeparator,
                            RepetitionSeparator, EscapeCharacter} : fields[2] = <<c>>

\* C5: serialization format.  The text of a message is its segments'
\* records one after the other and nothing else; a record is the type,
\* then '|' and the text of each field, then one carriage return.
C5_SerializationFormat ==
    Serialized
        => /\ Len(text) = RecordOffset(message, Len(message.Segments) + 1)
           /\ \A k \in 1..Len(message.Segments) :
                  IsRecordOf(SubSeq(text, RecordOffset(message, k) + 1,
                                    RecordOffset(message, k + 1)),
                             message.Segments[k])

\* A message of two segments, the first with fields, has been serialized.
C5_Witness ==
    /\ pc = "text"
    /\ Len(message.Segments) = 2
    /\ Len(message.Segments[1].Fields) >= 1
    /\ message.Segments[2].Fields = <<>>

\* C6: append order.  After n AddSegment calls the message holds n
\* segments, the i-th with the type and the fields of the i-th call; and
\* while the model may still build, AddSegment takes every type and every
\* field list that fits.
C6_AppendOrder ==
    /\ Len(message.Segments) = Len(calls)
    /\ \A i \in 1..Len(calls) : message.Segments[i] = Segment(calls[i][1], calls[i][2])
    /\ pc = "build" =>
           \A segmentType \in Types, fields \in FieldLists :
               Cells(message.Segments) + 1 + Len(fields) <= MaxCells
                   => ENABLED AddSegment(segmentType, fields)

\* Three calls, the second with an empty type and no field, the others not.
C6_Witness ==
    /\ Len(calls) = 3
    /\ IsEmptySegment(message.Segments[2])
    /\ message.Segments[1] # message.Segments[3]
    /\ ~IsEmptySegment(message.Segments[1])

\* C7: arbitrary-length input.  For every text, however long its chunks,
\* the parse returns a message and no error.
C7_AnyLength ==
    pc = "parsed" => parsed.err = NoError /\ parsed.message # NilMessage

\* C8: error outcomes of parse.  The parse never returns 'invalid segment
\* format'; an error it returns is the scanner's (token too long, which a
\* chunk of MaxScanTokenSize bytes or more raises) and comes with a nil message.
C8_ErrorOutcomes ==
    pc = "parsed"
        => /\ parsed.err # ErrInvalidSegment
           /\ parsed.err # NoError
                  => /\ parsed.err = ErrTooLong
                     /\ HasOversizedChunk(text)
                     /\ parsed.message = NilMessage

\* The parse has failed on a text whose first chunk is a good segment.
C8_Witness ==
    /\ pc = "parsed"
    /\ parsed.err # NoError
    /\ ChunkAt(text, 1) = <<"A", FieldSeparator, ComponentSeparator>>
    /\ NumChunks(text) >= 2

\* C9: port configuration.  The server listens on the port HL7_PORT names
\* when it is set and not empty, on 8080 otherwise.
C9_PortFromEnv ==
    pc = "serving" => addr.port = (IF Getenv(env) # "" THEN Getenv(env) ELSE "8080")

\* C10: normal form of parsed messages.  No string of a parsed message
\* holds a carriage return or a '|', no segment has an empty type and no
\* field, and parsing the serialization of a parsed message gives it back.
C10_NormalForm ==
    /\ Parsed /\ parsed.err = NoError
           => NoSeparators(parsed.message) /\ NoEmptySegment(parsed.message)
    /\ pc = "reparsed" => parsed2 = parsed

\* A text with an empty chunk and two segments has been parsed, serialized
\* to another text and parsed again.
C10_Witness ==
    /\ pc = "reparsed"
    /\ ~NoEmptyChunk(text)
    /\ text2 # text
    /\ Len(parsed2.message.Segments) = 2

====
